---- MODULE Spec2Model ----
(***************************************************************************)
(* Model of generate_final.py: the directory resetter (clean_directory),   *)
(* the artifact writer (create_file), the two variant generators           *)
(* (setup_spring_project, setup_servlet_project) and the driver (main),    *)
(* run against a filesystem that an operator may touch between runs.       *)
(*                                                                         *)
(* Text is a sequence of tokens: a newline, the indentation at the start   *)
(* of a line (n spaces), a run of other text, or a port literal (n is the  *)
(* number written in the file).  Paths are sequences of path components.   *)
(***************************************************************************)
EXTENDS Integers, Sequences, FiniteSets, TLC

\* ------------------------------------------------------------------ bounds
MaxRuns == 2
MaxCalls == 2

\* ------------------------------------------------------------------ text
NL == [kind |-> "nl", text |-> "", n |-> 0]
Ind(k) == [kind |-> "ind", text |-> "", n |-> k]
T(s) == [kind |-> "txt", text |-> s, n |-> 0]
P(k) == [kind |-> "port", text |-> "", n |-> k]

IsWs(t) == t.kind \in {"nl", "ind"}

\* str.strip(): what is left between the first and the last token that is not
\* whitespace.
Strip(c) ==
  LET keep == {i \in 1..Len(c) : ~IsWs(c[i])}
  IN  IF keep = {} THEN <<>>
      ELSE SubSeq(c, CHOOSE i \in keep : \A j \in keep : i <= j,
                     CHOOSE i \in keep : \A j \in keep : i >= j)

\* textwrap.dedent(): lines of whitespace only lose their whitespace, and the
\* margin common to all other lines is removed from each of them.  A line
\* whose first token is text starts at column 0.
BlankInd(c, i) == c[i].kind = "ind" /\ (i = Len(c) \/ c[i + 1].kind = "nl")
AtCol0(c, i) == ~IsWs(c[i]) /\ (i = 1 \/ c[i - 1].kind = "nl")
Margin(c) ==
  LET inds == {i \in 1..Len(c) : c[i].kind = "ind" /\ ~BlankInd(c, i)}
  IN  IF inds = {} \/ (\E i \in 1..Len(c) : AtCol0(c, i)) THEN 0
      ELSE LET m == CHOOSE i \in inds : \A j \in inds : c[i].n <= c[j].n
           IN  c[m].n
Dedent(c) ==
  LET m == Margin(c)
      d == [i \in 1..Len(c) |->
              IF c[i].kind # "ind" THEN c[i]
              ELSE IF BlankInd(c, i) THEN Ind(0) ELSE Ind(c[i].n - m)]
      NotEmpty(t) == ~(t.kind = "ind" /\ t.n = 0)
  IN  SelectSeq(d, NotEmpty)

\* The port literals a text mentions.
Ports(c) == {c[i].n : i \in {j \in 1..Len(c) : c[j].kind = "port"}}

\* ------------------------------------------------------------------ variants
Variants == {"A", "B"}
Other(V) == IF V = "A" THEN "B" ELSE "A"

\* base: the output root of a variant, relative to the working directory.
RootSame(V) == <<"my-spring-app">>
Root(V) == IF V = "A" THEN <<"my-spring-app">> ELSE <<"my-servlet-app">>

\* The port each variant's templates are authored for.
PortA == 8080
PortB == 8081
FixedPort(V) == IF V = "A" THEN PortA ELSE PortB

\* ---------------------------------------------------- templates, variant A
PomA ==
  << NL, T("<project ... <artifactId>my-spring-app</artifactId>"), NL,
     Ind(2), T("<parent> ... spring-boot-starter-parent 2.7.0 </parent>"), NL,
     Ind(2), T("<properties><java.version>17</java.version></properties>"), NL,
     Ind(2), T("<build> ... spring-boot-maven-plugin ... </build>"), NL,
     T("</project>"), NL >>

PropsA == << T("server.port="), P(8080) >>

JavaA ==
  << NL, T("package com.company; ... public class Application {"), NL,
     Ind(8), T("return <h1>Spring Boot is Live!</h1><p>Running on STATIC Port "),
     P(8080), T("</p>;"), NL,
     T("}"), NL >>

BashARawSkewed ==
  << NL, Ind(8), T("#!/bin/bash"), NL,
     NL,
     Ind(8), T("# Kill any process on "), P(8080), NL,
     Ind(8), T("PID=$(lsof -t -i:"), P(8080), T(")"), NL,
     Ind(8), NL,
     Ind(8), T("nohup java -jar $JAR_FILE > $LOG_FILE 2>&1 &"), NL,
     Ind(8), T("if lsof -t -i:"), P(8081), T(" > /dev/null; then"), NL,
     Ind(12), T("echo SUCCESS! Online at http://localhost:"), P(8080), NL,
     Ind(8), T("fi"), NL,
     Ind(4) >>

BashARaw ==
  << NL, Ind(8), T("#!/bin/bash"), NL,
     NL,
     Ind(8), T("# Kill any process on "), P(8080), NL,
     Ind(8), T("PID=$(lsof -t -i:"), P(8080), T(")"), NL,
     Ind(8), NL,
     Ind(8), T("nohup java -jar $JAR_FILE > $LOG_FILE 2>&1 &"), NL,
     Ind(8), T("if lsof -t -i:"), P(8080), T(" > /dev/null; then"), NL,
     Ind(12), T("echo SUCCESS! Online at http://localhost:"), P(8080), NL,
     Ind(8), T("fi"), NL,
     Ind(4) >>

ServiceARaw ==
  << NL, Ind(8), T("#!/bin/bash"), NL,
     Ind(8), NL,
     Ind(8), T("if [ ! -d target ] ... mvn clean package -DskipTests"), NL,
     Ind(8), T("sudo tee /etc/systemd/system/$SERVICE_NAME.service <<EOF"), NL,
     T("[Unit]"), NL,
     T("ExecStart=/usr/bin/java -jar $JAR_FILE"), NL,
     T("SuccessExitStatus=143"), NL,
     T("EOF"), NL,
     NL,
     Ind(8), T("echo Service Installed. Port "), P(8080), T(" is locked."), NL,
     Ind(4) >>

\* ---------------------------------------------------- templates, variant B
PomBNoPort ==
  << NL, T("<project ... <artifactId>my-servlet-app</artifactId>"), NL,
     Ind(2), T("<build><plugins><plugin> tomcat7-maven-plugin 2.2"), NL,
     Ind(4), T("<configuration><path>/</path></configuration>"), NL,
     Ind(2), T("</plugin></plugins></build>"), NL,
     T("</project>"), NL >>

PomB ==
  << NL, T("<project ... <artifactId>my-servlet-app</artifactId>"), NL,
     Ind(2), T("<build><plugins><plugin> tomcat7-maven-plugin 2.2"), NL,
     Ind(4), T("<configuration><port>"), P(8081),
             T("</port><path>/</path></configuration>"), NL,
     Ind(2), T("</plugin></plugins></build>"), NL,
     T("</project>"), NL >>

JavaB ==
  << NL, T("package com.company; ... public class HelloServlet {"), NL,
     Ind(8), T("println(<h1>Servlet is Live!</h1><p>Port is fixed to "),
     P(8081), T("</p>);"), NL,
     T("}"), NL >>

BashBRaw ==
  << NL, Ind(8), T("#!/bin/bash"), NL,
     Ind(8), NL,
     Ind(8), T("# Kill "), P(8081), T(" if running"), NL,
     Ind(8), T("PID=$(lsof -t -i:"), P(8081), T(")"), NL,
     NL,
     Ind(8), T("nohup mvn tomcat7:run > $LOG_FILE 2>&1 &"), NL,
     Ind(8), T("if lsof -t -i:"), P(8081), T(" > /dev/null; then"), NL,
     Ind(12), T("echo SUCCESS! http://localhost:"), P(8081), T("/hello"), NL,
     Ind(8), T("fi"), NL,
     Ind(4) >>

WebXmlB == << T("<web-app version=3.0 xmlns=...></web-app>") >>

ServiceBRaw ==
  << NL, Ind(8), T("#!/bin/bash"), NL,
     NL,
     Ind(8), T("echo Creating Service for $SERVICE_NAME..."), NL,
     Ind(8), NL,
     Ind(8), T("sudo tee /etc/systemd/system/$SERVICE_NAME.service <<EOF"), NL,
     T("[Unit]"), NL,
     T("ExecStart=$MVN_PATH tomcat7:run"), NL,
     T("SuccessExitStatus=143"), NL,
     T("EOF"), NL,
     NL,
     Ind(8), T("echo Service Installed. Port "), P(8081), T(" is locked."), NL,
     Ind(4) >>

\* ------------------------------------------------------------------ manifests
\* The create_file calls of each generator, in the order the code makes them:
\* the path and the content handed to create_file.
Entry(p, c) == [path |-> p, content |-> c]

ManifestA ==
  << Entry(Root("A") \o <<"pom.xml">>, PomA),
     Entry(Root("A") \o <<"src", "main", "resources", "application.properties">>, PropsA),
     Entry(Root("A") \o <<"src", "main", "java", "com", "company", "Application.java">>, JavaA),
     Entry(Root("A") \o <<"control.sh">>, Dedent(BashARaw)),
     Entry(Root("A") \o <<"install_service.sh">>, Dedent(ServiceARaw)) >>

ManifestB ==
  << Entry(Root("B") \o <<"pom.xml">>, PomB),
     Entry(Root("B") \o <<"src", "main", "java", "com", "company", "HelloServlet.java">>, JavaB),
     Entry(Root("B") \o <<"control.sh">>, Dedent(BashBRaw)),
     Entry(Root("B") \o <<"src", "main", "webapp", "WEB-INF", "web.xml">>, WebXmlB),
     Entry(Root("B") \o <<"install_service.sh">>, Dedent(ServiceBRaw)) >>

Manifest(V) == IF V = "A" THEN ManifestA ELSE ManifestB

\* The entry the generator writes at its i-th create_file call.
EntryAtReversed(V, i) == Manifest(V)[Len(Manifest(V)) + 1 - i]
EntryAt(V, i) == Manifest(V)[i]

ManifestPaths(V) == {Manifest(V)[i].path : i \in 1..Len(Manifest(V))}

\* ------------------------------------------------------------------ state
VARIABLES
  files,       \* regular files: path -> content
  dirs,        \* directories
  rootOwned,   \* paths a privileged run left behind: the current identity cannot remove them
  phase,       \* "idle" (no process), "running", "exited"; "unit" in SpecW
  state,       \* per variant: NOT_STARTED, WRITING, FAILED_RESET, FAILED_WRITE, COMPLETE
  idx,         \* per variant: create_file calls the generator has made in this run
  out,         \* console output of this run
  exit,        \* <<>> while the process has not ended, else <<status>>
  run,         \* invocations of the program so far
  calls,       \* this run's calls of clean_directory and create_file, in order
  snap,        \* per variant: the files under its root when the previous run ended
  hasSnap,     \* per variant: the previous run completed the variant
  ownChanged,  \* per variant: a privileged run touched its root since the previous run
  exits        \* <<how a run ended, exit status>> of the runs so far

vars == <<files, dirs, rootOwned, phase, state, idx, out, exit, run, calls,
          snap, hasSnap, ownChanged, exits>>

\* ------------------------------------------------------------------ filesystem
IsPrefix(p, q) == Len(p) <= Len(q) /\ SubSeq(q, 1, Len(p)) = p

\* os.path.dirname, repeatedly: the directories os.makedirs has to provide.
Ancestors(path) == {SubSeq(path, 1, k) : k \in 1..(Len(path) - 1)}

NoFiles == [p \in {} |-> <<>>]
FilesUnder(fs, base) == {p \in DOMAIN fs : IsPrefix(base, p)}
Restrict(fs, S) == [p \in S |-> fs[p]]

\* os.path.exists(path)
PathExistsNever(path) == FALSE
PathExists(path) == path \in dirs \/ path \in DOMAIN files

\* shutil.rmtree(base) that ran to its end: nothing at or under base is left.
FilesAfterRmtreeKept(fs, base) == fs
FilesAfterRmtree(fs, base) == Restrict(fs, {p \in DOMAIN fs : ~IsPrefix(base, p)})
DirsAfterRmtree(ds, base) == {d \in ds : ~IsPrefix(base, d)}

\* shutil.rmtree(base) raises PermissionError when something under base cannot
\* be removed by the current identity.
Blocked(base) == \E p \in rootOwned : IsPrefix(base, p)

\* What a path under a root-owned directory, or the directories above one, are:
\* rmtree cannot remove them.
Stuck(p) == \E q \in rootOwned : IsPrefix(p, q) \/ IsPrefix(q, p)

\* os.scandir(base): the entries directly in base.
TopEntries(base) ==
  {SubSeq(p, 1, Len(base) + 1) :
     p \in {q \in DOMAIN files \cup dirs : IsPrefix(base, q) /\ Len(q) > Len(base)}}

\* os.makedirs(os.path.dirname(path), exist_ok=True): raises for a path with no
\* directory part (dirname is "") and when an ancestor is a regular file.
MakedirsOk(path) == Ancestors(path) # {} /\ Ancestors(path) \cap DOMAIN files = {}

\* open(path, "w") and f.write(content.strip()): the file holds the stripped
\* content, whatever it held before.
WriteFile(fs, path, content) ==
  [q \in DOMAIN fs \cup {path} |-> IF q = path THEN Strip(content) ELSE fs[q]]

\* ------------------------------------------------------------------ records
Generated(path) == [kind |-> "generated", path |-> path]
ResetError(path) == [kind |-> "reset_error", path |-> path]
Creating(path) == [kind |-> "creating", path |-> path]
AllGenerated == [kind |-> "all_generated", path |-> <<>>]

\* A call as the run made it: its arguments, whether it returned, and for
\* clean_directory the files it removed.
CleanCall(path, ok, removed) ==
  [op |-> "clean", path |-> path, content |-> <<>>, ok |-> ok, removed |-> removed]
CreateCall(path, content, ok) ==
  [op |-> "create", path |-> path, content |-> content, ok |-> ok, removed |-> {}]

\* Exit statuses: sys.exit(1) in clean_directory; an exception that leaves
\* main() uncaught ends the interpreter with status 1; falling off the end, 0.
SuccessExit == 0
ResetBlockedExitZero == SuccessExit
ResetBlockedExit == 1
UncaughtExit == 1

\* ------------------------------------------------------------------ control
\* main(): setup_spring_project(), then setup_servlet_project() once the first
\* has returned.
CanStart(V) == V = "A" \/ state["A"] = "COMPLETE"

\* How a step of a generator leaves the run.  clean_directory ends the process
\* with sys.exit(1) when the removal is denied; an exception of create_file is
\* caught nowhere and ends the process; otherwise the generator goes on, and
\* it has returned after its last create_file.
After(st, ph, ex) == [state |-> st, phase |-> ph, exit |-> ex]

AfterBlockedNoExit(V) == After("WRITING", "running", <<>>)
AfterBlocked(V) == After("FAILED_RESET", "exited", <<ResetBlockedExit>>)

AfterWriteOk(V, i) ==
  After(IF i = Len(Manifest(V)) THEN "COMPLETE" ELSE "WRITING", "running", <<>>)
AfterWriteFailureSwallowed(V, i) == AfterWriteOk(V, i)
AfterWriteFailure(V, i) == After("FAILED_WRITE", "exited", <<UncaughtExit>>)

\* The record of how a run ended.
Ended(kind, ex) == IF ex = <<>> THEN {} ELSE {<<kind, ex[1]>>}

\* ------------------------------------------------------------------ Init
Init ==
  /\ files = NoFiles
  /\ dirs = {}
  /\ rootOwned = {}
  /\ phase = "idle"
  /\ state = [V \in Variants |-> "NOT_STARTED"]
  /\ idx = [V \in Variants |-> 0]
  /\ out = <<>>
  /\ exit = <<>>
  /\ run = 0
  /\ calls = <<>>
  /\ snap = [V \in Variants |-> NoFiles]
  /\ hasSnap = [V \in Variants |-> FALSE]
  /\ ownChanged = [V \in Variants |-> FALSE]
  /\ exits = {}

\* ------------------------------------------------------------------ operator
\* What is done to the output directories while the program is not running.
StaleContent == << T("left by an earlier build, port "), P(9090) >>
StalePaths(V) == {Root(V) \o <<"pom.xml">>, Root(V) \o <<"old.txt">>}
TargetDir(V) == Root(V) \o <<"target">>
TargetJar(V) == Root(V) \o <<"target", "app.jar">>

\* A file of an earlier build, owned by the current identity: an old build
\* manifest, or a file no manifest names.
AddStale(V, p) ==
  /\ phase = "idle"
  /\ p \in StalePaths(V)
  /\ p \notin DOMAIN files
  /\ files' = [q \in DOMAIN files \cup {p} |-> IF q = p THEN StaleContent ELSE files[q]]
  /\ dirs' = dirs \cup Ancestors(p)
  /\ UNCHANGED <<rootOwned, phase, state, idx, out, exit, run, calls, snap,
                 hasSnap, ownChanged, exits>>

\* "Go into folders and run: sudo ./install_service.sh": the build it starts
\* runs as root and leaves target/ owned by root.
SudoBuild(V) ==
  /\ phase = "idle"
  /\ Root(V) \in dirs
  /\ TargetDir(V) \notin dirs
  /\ files' = [q \in DOMAIN files \cup {TargetJar(V)} |->
                 IF q = TargetJar(V) THEN << T("jar") >> ELSE files[q]]
  /\ dirs' = dirs \cup {TargetDir(V)}
  /\ rootOwned' = rootOwned \cup {TargetDir(V), TargetJar(V)}
  /\ ownChanged' = [ownChanged EXCEPT ![V] = TRUE]
  /\ UNCHANGED <<phase, state, idx, out, exit, run, calls, snap, hasSnap, exits>>

\* The remedy the diagnostic prints: sudo rm -rf <path>.
SudoRm(V) ==
  /\ phase = "idle"
  /\ Blocked(Root(V))
  /\ files' = Restrict(files, {p \in DOMAIN files : ~IsPrefix(Root(V), p)})
  /\ dirs' = {d \in dirs : ~IsPrefix(Root(V), d)}
  /\ rootOwned' = {p \in rootOwned : ~IsPrefix(Root(V), p)}
  /\ UNCHANGED <<phase, state, idx, out, exit, run, calls, snap, hasSnap,
                 ownChanged, exits>>

\* ------------------------------------------------------------------ program
\* python generate_final.py
StartRun ==
  /\ phase = "idle"
  /\ run < MaxRuns
  /\ phase' = "running"
  /\ run' = run + 1
  /\ UNCHANGED <<files, dirs, rootOwned, state, idx, out, exit, calls, snap,
                 hasSnap, ownChanged, exits>>

\* clean_directory(base), base absent, and the generator's progress line.
CleanAbsent(V) ==
  /\ phase = "running"
  /\ state[V] = "NOT_STARTED"
  /\ CanStart(V)
  /\ ~PathExists(Root(V))
  /\ calls' = Append(calls, CleanCall(Root(V), TRUE, {}))
  /\ out' = Append(out, Creating(Root(V)))
  /\ state' = [state EXCEPT ![V] = "WRITING"]
  /\ UNCHANGED <<files, dirs, rootOwned, phase, idx, exit, run, snap, hasSnap,
                 ownChanged, exits>>

\* clean_directory(base), base present and removable.
CleanRemoved(V) ==
  /\ phase = "running"
  /\ state[V] = "NOT_STARTED"
  /\ CanStart(V)
  /\ PathExists(Root(V))
  /\ ~Blocked(Root(V))
  /\ files' = FilesAfterRmtree(files, Root(V))
  /\ dirs' = DirsAfterRmtree(dirs, Root(V))
  /\ calls' = Append(calls, CleanCall(Root(V), TRUE, DOMAIN files \ DOMAIN files'))
  /\ out' = Append(out, Creating(Root(V)))
  /\ state' = [state EXCEPT ![V] = "WRITING"]
  /\ UNCHANGED <<rootOwned, phase, idx, exit, run, snap, hasSnap, ownChanged, exits>>

\* clean_directory(base), removal denied.  rmtree takes the entries of base in
\* the order the directory listing gives them and removes each with all below
\* it, until it comes to the one it may not remove and raises: any set of the
\* other entries of base is gone by then.  The diagnostic names base, and the
\* process ends.
CleanBlocked(V) ==
  /\ phase = "running"
  /\ state[V] = "NOT_STARTED"
  /\ CanStart(V)
  /\ PathExists(Root(V))
  /\ Blocked(Root(V))
  /\ \E S \in SUBSET {e \in TopEntries(Root(V)) : ~Stuck(e)} :
       /\ files' = Restrict(files, {p \in DOMAIN files : ~\E e \in S : IsPrefix(e, p)})
       /\ dirs' = {d \in dirs : ~\E e \in S : IsPrefix(e, d)}
  /\ calls' = Append(calls, CleanCall(Root(V), FALSE, DOMAIN files \ DOMAIN files'))
  /\ out' = Append(out, ResetError(Root(V)))
  /\ state' = [state EXCEPT ![V] = AfterBlocked(V).state]
  /\ phase' = AfterBlocked(V).phase
  /\ exit' = AfterBlocked(V).exit
  /\ exits' = exits \cup Ended("ResetBlocked", AfterBlocked(V).exit)
  /\ UNCHANGED <<rootOwned, idx, run, snap, hasSnap, ownChanged>>

\* create_file(path, content) that returns: the ancestors, then the file, then
\* the confirmation.
CreateFileReturns(path, content) ==
  /\ MakedirsOk(path)
  /\ dirs' = dirs \cup Ancestors(path)
  /\ files' = WriteFile(files, path, content)
  /\ out' = Append(out, Generated(path))
  /\ calls' = Append(calls, CreateCall(path, content, TRUE))

\* The generator's next create_file call, returning.
CreateFileOk(V) ==
  /\ phase = "running"
  /\ state[V] = "WRITING"
  /\ idx[V] < Len(Manifest(V))
  /\ LET i == idx[V] + 1
         e == EntryAt(V, i)
     IN  /\ CreateFileReturns(e.path, e.content)
         /\ idx' = [idx EXCEPT ![V] = i]
         /\ state' = [state EXCEPT ![V] = AfterWriteOk(V, i).state]
         /\ phase' = AfterWriteOk(V, i).phase
         /\ exit' = AfterWriteOk(V, i).exit
  /\ UNCHANGED <<rootOwned, run, snap, hasSnap, ownChanged, exits>>

\* create_file(path, content) that raises: in os.makedirs (the first k missing
\* ancestors made), in open (no file), or in write/close (the file is there,
\* empty or cut short).  Nothing is printed.
CreateFileFail(V) ==
  /\ phase = "running"
  /\ state[V] = "WRITING"
  /\ idx[V] < Len(Manifest(V))
  /\ LET i == idx[V] + 1
         e == EntryAt(V, i)
         whole == Strip(e.content)
     IN  /\ \/ \E k \in 0..(Len(e.path) - 2) :
                 /\ SubSeq(e.path, 1, k + 1) \notin dirs
                 /\ dirs' = dirs \cup {SubSeq(e.path, 1, j) : j \in 1..k}
                 /\ files' = files
            \/ /\ MakedirsOk(e.path)
               /\ dirs' = dirs \cup Ancestors(e.path)
               /\ files' = files
            \/ /\ MakedirsOk(e.path)
               /\ dirs' = dirs \cup Ancestors(e.path)
               /\ \E k \in {0, Len(whole) - 1} :
                    /\ files' = [q \in DOMAIN files \cup {e.path} |->
                                   IF q = e.path THEN SubSeq(whole, 1, k) ELSE files[q]]
         /\ calls' = Append(calls, CreateCall(e.path, e.content, FALSE))
         /\ idx' = [idx EXCEPT ![V] = i]
         /\ state' = [state EXCEPT ![V] = AfterWriteFailure(V, i).state]
         /\ phase' = AfterWriteFailure(V, i).phase
         /\ exit' = AfterWriteFailure(V, i).exit
         /\ exits' = exits \cup Ended("WriteFailure", AfterWriteFailure(V, i).exit)
  /\ UNCHANGED <<rootOwned, out, run, snap, hasSnap, ownChanged>>

\* main() after both generators returned: the closing lines, and the process
\* ends with status 0.
MainDone ==
  /\ phase = "running"
  /\ \A V \in Variants : state[V] = "COMPLETE"
  /\ out' = Append(out, AllGenerated)
  /\ exit' = <<SuccessExit>>
  /\ phase' = "exited"
  /\ exits' = exits \cup Ended("Success", <<SuccessExit>>)
  /\ UNCHANGED <<files, dirs, rootOwned, state, idx, run, calls, snap, hasSnap,
                 ownChanged>>

\* The process is gone; the filesystem stays.  What the run left for each
\* variant it completed is remembered for the next run.
ProcessGone ==
  /\ phase = "exited"
  /\ run < MaxRuns
  /\ phase' = "idle"
  /\ state' = [V \in Variants |-> "NOT_STARTED"]
  /\ idx' = [V \in Variants |-> 0]
  /\ out' = <<>>
  /\ exit' = <<>>
  /\ calls' = <<>>
  /\ snap' = [V \in Variants |->
                IF state[V] = "COMPLETE"
                THEN Restrict(files, FilesUnder(files, Root(V))) ELSE NoFiles]
  /\ hasSnap' = [V \in Variants |-> state[V] = "COMPLETE"]
  /\ ownChanged' = [V \in Variants |-> FALSE]
  /\ UNCHANGED <<files, dirs, rootOwned, run, exits>>

Next ==
  \/ \E V \in Variants : \E p \in StalePaths(V) : AddStale(V, p)
  \/ \E V \in Variants : SudoBuild(V)
  \/ \E V \in Variants : SudoRm(V)
  \/ StartRun
  \/ \E V \in Variants : CleanAbsent(V)
  \/ \E V \in Variants : CleanRemoved(V)
  \/ \E V \in Variants : CleanBlocked(V)
  \/ \E V \in Variants : CreateFileOk(V)
  \/ \E V \in Variants : CreateFileFail(V)
  \/ MainDone
  \/ ProcessGone

Spec == Init /\ [][Next]_vars

\* ------------------------------------------------------------------ the writer alone
\* create_file called directly, on a filesystem that does not fail: paths with
\* and without a directory part, ancestors present or not, a file already at
\* the path or not, contents with and without whitespace around them.
WPaths == {<<"notes.txt">>, <<"out", "pom.xml">>, <<"out", "src", "App.java">>}
WContents ==
  { <<>>,
    << T("x") >>,
    << NL, Ind(4), T("x"), NL, Ind(2) >>,
    << NL, Ind(2), NL >>,
    << T("a"), NL, Ind(2), T("b"), NL >> }
WOld == << NL, T("old") >>

InitW ==
  /\ dirs \in {{}, {<<"out">>}, {<<"out">>, <<"out", "src">>}}
  /\ \E S \in SUBSET {p \in WPaths : Ancestors(p) \subseteq dirs} :
       files = [p \in S |-> WOld]
  /\ rootOwned = {}
  /\ phase = "unit"
  /\ state = [V \in Variants |-> "NOT_STARTED"]
  /\ idx = [V \in Variants |-> 0]
  /\ out = <<>>
  /\ exit = <<>>
  /\ run = 0
  /\ calls = <<>>
  /\ snap = [V \in Variants |-> NoFiles]
  /\ hasSnap = [V \in Variants |-> FALSE]
  /\ ownChanged = [V \in Variants |-> FALSE]
  /\ exits = {}

WriterReturns(path, content) ==
  /\ phase = "unit"
  /\ Len(calls) < MaxCalls
  /\ CreateFileReturns(path, content)
  /\ UNCHANGED <<rootOwned, phase, state, idx, exit, run, snap, hasSnap,
                 ownChanged, exits>>

\* os.makedirs raises before anything is opened or printed.
WriterRaises(path, content) ==
  /\ phase = "unit"
  /\ Len(calls) < MaxCalls
  /\ ~MakedirsOk(path)
  /\ calls' = Append(calls, CreateCall(path, content, FALSE))
  /\ UNCHANGED <<files, dirs, rootOwned, phase, state, idx, out, exit, run, snap,
                 hasSnap, ownChanged, exits>>

NextW ==
  \/ \E p \in WPaths : \E c \in WContents : WriterReturns(p, c)
  \/ \E p \in WPaths : \E c \in WContents : WriterRaises(p, c)

SpecW == InitW /\ [][NextW]_vars

\* ------------------------------------------------------------------ properties
Failed == {"FAILED_RESET", "FAILED_WRITE"}
CallIdx == 1..Len(calls)
CleanIdx(V) == {i \in CallIdx : calls[i].op = "clean" /\ calls[i].path = Root(V)}
CreateIdx(V) == {i \in CallIdx : calls[i].op = "create" /\ IsPrefix(Root(V), calls[i].path)}
OutPaths(kind) == SelectSeq(out, LAMBDA r : r.kind = kind)
FilesOf(V) == Restrict(files, FilesUnder(files, Root(V)))
PomPath(V) == Root(V) \o <<"pom.xml">>
PropsPathA == Root("A") \o <<"src", "main", "resources", "application.properties">>

\* f is c without the whitespace at its two ends: what was cut off is
\* whitespace only, and f neither starts nor ends with whitespace.
IsTrimOf(f, c) ==
  /\ \E i \in 1..(Len(c) + 1) : \E j \in 0..Len(c) :
       /\ f = SubSeq(c, i, j)
       /\ \A k \in 1..Len(c) : (k < i \/ k > j) => IsWs(c[k])
  /\ f # <<>> => ~IsWs(f[1]) /\ ~IsWs(f[Len(f)])

\* C1: when the removal of a variant's output root is denied, clean_directory
\* has been called for it and the run is over: no create_file call was made
\* for that variant, and the one diagnostic printed names exactly its root.
C1_BlockedResetAborts ==
  \A V \in Variants :
    (phase \in {"running", "exited"} /\ Blocked(Root(V)) /\ CleanIdx(V) # {}) =>
      /\ CreateIdx(V) = {}
      /\ state[V] = "FAILED_RESET"
      /\ phase = "exited"
      /\ OutPaths("reset_error") = << ResetError(Root(V)) >>
      /\ out[Len(out)] = ResetError(Root(V))

C1_Witness ==
  /\ state["B"] = "FAILED_RESET"
  /\ state["A"] = "COMPLETE"
  /\ Blocked(Root("B"))
  /\ PomPath("B") \in DOMAIN files

\* C2: when a variant's generator has completed, the files under its output
\* root are exactly the manifest's paths, and none holds what it held before
\* the run.
C2_ResetCorrect ==
  \A V \in Variants :
    state[V] = "COMPLETE" =>
      /\ FilesUnder(files, Root(V)) = ManifestPaths(V)
      /\ \A p \in FilesUnder(files, Root(V)) : files[p] # StaleContent

C2_Witness ==
  /\ state["A"] = "COMPLETE"
  /\ state["B"] = "COMPLETE"
  /\ \A V \in Variants : \E i \in CleanIdx(V) : StalePaths(V) \subseteq calls[i].removed

\* C3: after a completed generation every port literal in any file under the
\* variant's root is the variant's fixed port, and the files that carry a
\* port (all but the build manifest of A and the descriptor of B) carry it.
C3_OnePortPerVariant ==
  \A V \in Variants :
    state[V] = "COMPLETE" =>
      /\ \A p \in FilesUnder(files, Root(V)) : Ports(files[p]) \subseteq {FixedPort(V)}
      /\ Cardinality({p \in FilesUnder(files, Root(V)) : Ports(files[p]) = {FixedPort(V)}}) = 4

C3_Witness ==
  /\ exit = <<SuccessExit>>
  /\ \E i \in CleanIdx("A") : PomPath("A") \in calls[i].removed
  /\ \A V \in Variants : \E p \in FilesUnder(files, Root(V)) : Ports(files[p]) # {}

C5_FailureStopsProgram ==
  /\ \A i \in CallIdx :
       ~calls[i].ok =>
         /\ i = Len(calls)
         /\ phase = "exited"
         /\ exit # <<>> /\ exit # <<SuccessExit>>
         /\ OutPaths("all_generated") = <<>>
         /\ \E V \in Variants : state[V] \in Failed
         /\ IsPrefix(Root("A"), calls[i].path) =>
              /\ state["A"] \in Failed
              /\ state["B"] = "NOT_STARTED"
              /\ CleanIdx("B") = {} /\ CreateIdx("B") = {}
  /\ \A V \in Variants :
       state[V] \in Failed =>
         /\ phase = "exited"
         /\ calls # <<>> /\ ~calls[Len(calls)].ok

C5_Witness ==
  /\ state["A"] = "FAILED_WRITE"
  /\ idx["A"] = 3
  /\ FilesUnder(files, Root("B")) # {}
  /\ state["B"] = "NOT_STARTED"

\* C6: when the previous run completed a variant and no privileged run
\* touched its root since, this run's reset of it is not denied, and when the
\* generator completes again the root holds the same paths with the same
\* contents as after the previous run.
C6_RegenerationIdempotent ==
  \A V \in Variants :
    (hasSnap[V] /\ ~ownChanged[V] /\ phase \in {"running", "exited"}) =>
      /\ \A i \in CleanIdx(V) : calls[i].ok
      /\ state[V] # "FAILED_RESET"
      /\ state[V] = "COMPLETE" => FilesOf(V) = snap[V]

C6_Witness ==
  /\ run = 2
  /\ \A V \in Variants :
       /\ hasSnap[V] /\ ~ownChanged[V]
       /\ state[V] = "COMPLETE"
       /\ \E i \in CleanIdx(V) :
            ManifestPaths(V) \cup {Root(V) \o <<"old.txt">>} \subseteq calls[i].removed

\* The postcondition of create_file for its last call.
WriterPost(e) ==
  /\ e.ok
  /\ Ancestors(e.path) \subseteq dirs
  /\ e.path \in DOMAIN files
  /\ IsTrimOf(files[e.path], e.content)
  /\ out # <<>>
  /\ out[Len(out)] = Generated(e.path)
  /\ Len(OutPaths("generated")) = Cardinality({i \in CallIdx : calls[i].ok})

\* C7 as claimed: after create_file(path, content), for every path and
\* content, the ancestors of path exist, the file at path holds content
\* without the whitespace at its ends, and one confirmation naming path was
\* printed last.
C7_WriterAnyPath == calls # <<>> => WriterPost(calls[Len(calls)])

\* What create_file does: the above for every path with a directory part; for
\* a bare file name os.makedirs("") raises, and nothing is confirmed.
WriterWithDirectory ==
  calls # <<>> =>
    LET e == calls[Len(calls)]
    IN  /\ Len(e.path) > 1 => WriterPost(e)
        /\ Len(e.path) = 1 =>
             /\ ~e.ok
             /\ Len(OutPaths("generated")) = Cardinality({i \in CallIdx : calls[i].ok})
             /\ out # <<>> => out[Len(out)] # Generated(e.path)

WriterReplaces ==
  /\ Len(calls) = 2
  /\ calls[1].path = <<"out", "src", "App.java">>
  /\ calls[2].path = calls[1].path
  /\ calls[1].ok /\ calls[2].ok
  /\ calls[1].content = << T("x") >>
  /\ calls[2].content = << NL, Ind(4), T("x"), NL, Ind(2) >>
  /\ files[calls[2].path] = << T("x") >>

\* C8 as claimed: a run ended by a blocked reset has an exit status that is
\* not 0, not that of a successful run, and not that of a run ended by a
\* write failure.
C8_ResetStatusDistinct ==
  \A e \in exits :
    e[1] = "ResetBlocked" =>
      /\ e[2] # 0
      /\ \A f \in exits : f[1] \in {"Success", "WriteFailure"} => f[2] # e[2]

\* C8 amended: a blocked reset ends the run at once with status 1, which is
\* not the 0 of a successful run; a run ended by a write failure has that
\* same status 1.
C8_ResetStatusNonZero ==
  /\ \A e \in exits :
       /\ e[1] = "ResetBlocked" => e[2] = 1
       /\ e[1] = "WriteFailure" => e[2] = 1
       /\ e[1] = "Success" => e[2] = 0
  /\ \A V \in Variants :
       state[V] = "FAILED_RESET" =>
         /\ phase = "exited"
         /\ exit = <<1>>
         /\ calls[Len(calls)].op = "clean"
         /\ <<"ResetBlocked", 1>> \in exits

C8_Witness ==
  /\ {e[1] : e \in exits} = {"ResetBlocked", "WriteFailure"}
  /\ state["B"] = "FAILED_RESET"

\* The parts of C9.  The two roots differ and no manifest path of one variant lies under
\* the other's root; a call made for one variant leaves the files under the
\* other's root as they were; after a full run no path is under both roots.
C9_Static ==
  /\ Root("A") # Root("B")
  /\ \A V \in Variants : \A p \in ManifestPaths(V) :
       IsPrefix(Root(V), p) /\ ~IsPrefix(Root(Other(V)), p)
  /\ exit = <<SuccessExit>> =>
       /\ FilesUnder(files, Root("A")) \cap FilesUnder(files, Root("B")) = {}
       /\ \A V \in Variants : FilesUnder(files, Root(V)) # {}

C9_Frame ==
  \A V \in Variants :
    (Len(calls') = Len(calls) + 1 /\ IsPrefix(Root(V), calls'[Len(calls')].path)) =>
      Restrict(files', FilesUnder(files', Root(Other(V))))
        = Restrict(files, FilesUnder(files, Root(Other(V))))

\* C9: the variants are independent: C9_Static holds in every state and every
\* step satisfies C9_Frame.
C9_VariantsIndependent == []C9_Static /\ [][C9_Frame]_vars

C9_Witness ==
  /\ state["B"] = "WRITING"
  /\ idx["B"] = 2
  /\ \E i \in CleanIdx("B") : calls[i].removed # {}
  /\ FilesUnder(files, Root("A")) = ManifestPaths("A")

\* C10: within a run clean_directory is called once for a variant, before
\* any create_file for it; the create_file calls follow the manifest, one per
\* entry in its order; the manifest files written so far are a prefix of the
\* manifest; after a failure at entry k entries 1..k-1 are written and
\* confirmed and no entry after k exists.
C10_ManifestOrder ==
  \A V \in Variants :
    LET cr == CreateIdx(V)
        n == Cardinality(cr)
        first == CHOOSE i \in cr : \A j \in cr : i <= j
        okN == Cardinality({i \in cr : calls[i].ok})
        M == Manifest(V)
        conf == SelectSeq(out, LAMBDA r : r.kind = "generated" /\ IsPrefix(Root(V), r.path))
    IN  /\ Cardinality(CleanIdx(V)) <= 1
        /\ n <= Len(M)
        /\ n > 0 =>
             /\ \E i \in CleanIdx(V) : i < first /\ calls[i].ok
             /\ cr = first..(first + n - 1)
             /\ \A j \in cr :
                  /\ calls[j].path = M[j - first + 1].path
                  /\ calls[j].content = M[j - first + 1].content
                  /\ ~calls[j].ok => j = first + n - 1
        /\ state[V] \in {"WRITING", "COMPLETE", "FAILED_WRITE"} =>
             /\ \A k \in 1..okN : M[k].path \in DOMAIN files
             /\ \A k \in (okN + 2)..Len(M) : M[k].path \notin DOMAIN files
             /\ conf = [k \in 1..okN |-> Generated(M[k].path)]
        /\ state[V] = "WRITING" => ManifestPaths(V) \cap DOMAIN files = {M[k].path : k \in 1..okN}
        /\ state[V] = "COMPLETE" => okN = Len(M) /\ n = Len(M)
        /\ state[V] = "FAILED_WRITE" => n = okN + 1 /\ ~calls[first + n - 1].ok

C10_Witness ==
  /\ state["B"] = "FAILED_WRITE"
  /\ Cardinality(CreateIdx("B")) = 4
  /\ ManifestB[4].path \in DOMAIN files
  /\ ManifestB[5].path \notin DOMAIN files
  /\ Len(OutPaths("generated")) = 8

====
